---- MODULE Spec2Model ----
(***************************************************************************)
(* home-services: a dashboard server (src/src/main.rs).  A page load       *)
(* (index) re-scans the configuration directory and renders one entry per  *)
(* descriptor file that reads and parses; a streaming connection (sse)     *)
(* owns one inotify instance watching that directory and forwards every    *)
(* item of its event stream as an "update" frame.                          *)
(***************************************************************************)
EXTENDS Integers, Sequences, FiniteSets, TLC

(* ------------------------------ bounds -------------------------------- *)
\* filesystem operations the environment performs while connections stream
MaxFsOps == 2
\* filesystem operations the environment performs while pages load
MaxRaceOps == 1
\* next_entry errors one directory scan may meet
MaxDirErrs == 1
\* frames recorded per streaming connection
MaxFrames == 2

\* the page-load requests in flight at once, the streaming connections
Loads == {1, 2}
Conns == {1, 2}
\* file names the configuration directory may hold
Names == {"f1", "f2"}

(* ------------------------- descriptor texts --------------------------- *)
\* A descriptor text is a sequence of lines; a line is `key = value` with a
\* string or an integer value, or a line that is not TOML at all.
KV(k, v)    == [key |-> k, ty |-> "str", val |-> v]
KInt(k)     == [key |-> k, ty |-> "int", val |-> "1"]
Garbage     == [key |-> "", ty |-> "bad", val |-> ""]

TextValid       == << KV("name", "A"), KV("url", "http://x"), KV("desc", "d") >>
TextDescription == << KV("name", "A"), KV("url", "http://x"), KV("description", "d") >>
TextMalformed   == << KV("name", "A"), Garbage >>
TextEmpty       == << >>
\* the lines a descriptor may hold for key k: none, a string, an empty
\* string, an integer
FieldLines(k) == {<< >>, << KV(k, "v") >>, << KV(k, "") >>, << KInt(k) >>}
\* descriptor texts for the parser: every combination of the above for the
\* three fields, with or without an unknown extra field, with or without a
\* line that is not TOML
ParseTexts ==
    {n \o u \o d \o x \o g :
        n \in FieldLines("name"), u \in FieldLines("url"), d \in FieldLines("desc"),
        x \in {<< >>, << KV("extra", "x") >>}, g \in {<< >>, << Garbage >>}}
\* a second valid descriptor, for another service
TextValidB      == << KV("name", "B"), KV("url", "http://y"), KV("desc", "e") >>
\* descriptor texts that tell the entries of a directory apart
OrderTexts == {TextValid, TextValidB, TextMalformed}
\* the contents the environment writes into descriptor files
SampleTexts == {TextValid, TextDescription, TextMalformed}

(* ----------------------------- the parser ----------------------------- *)
NoService == [name |-> "", url |-> "", desc |-> ""]
ParseOk(n, u, d) == [ok |-> TRUE, service |-> [name |-> n, url |-> u, desc |-> d], e |-> ""]
ParseErr(msg)    == [ok |-> FALSE, service |-> NoService, e |-> msg]

LinesOf(text, k) == {i \in 1..Len(text) : text[i].key = k}
\* the value of key k in a table (text without duplicate keys)
Field(text, k)   == text[CHOOSE i \in LinesOf(text, k) : TRUE]

\* mutant: the third field is looked up under the key "description"
RequiredFields_description == << "name", "url", "description" >>
\* struct Service: its three fields, each a String
RequiredFields == << "name", "url", "desc" >>
\* toml::from_str::<Service>: the text must be a TOML table (no malformed
\* line, no key defined twice); each of the struct's fields must be present
\* and a string; other keys are ignored.
toml_from_str(text) ==
    IF \E i \in 1..Len(text) : text[i].ty = "bad"
      THEN ParseErr("TOML parse error")
    ELSE IF \E i, j \in 1..Len(text) : i < j /\ text[i].key = text[j].key
      THEN ParseErr("duplicate key")
    ELSE IF \E f \in 1..3 : LinesOf(text, RequiredFields[f]) = {}
      THEN ParseErr("missing field")
    ELSE IF \E f \in 1..3 : Field(text, RequiredFields[f]).ty # "str"
      THEN ParseErr("invalid type")
    ELSE ParseOk(Field(text, RequiredFields[1]).val, Field(text, RequiredFields[2]).val,
                 Field(text, RequiredFields[3]).val)

(* --------------------------- the filesystem --------------------------- *)
Absent      == [kind |-> "none", readable |-> TRUE, text |-> TextEmpty]
SubDir      == [kind |-> "dir",  readable |-> TRUE, text |-> TextEmpty]
File(t, r)  == [kind |-> "file", readable |-> r, text |-> t]

\* tokio::fs::read_to_string on a directory entry
ReadFail(msg) == [ok |-> FALSE, text |-> TextEmpty, e |-> msg]
read_to_string(nd) ==
    CASE nd.kind = "none"  -> ReadFail("No such file or directory")
      [] nd.kind = "dir"   -> ReadFail("Is a directory")
      [] ~nd.readable      -> ReadFail("Permission denied")
      [] OTHER             -> [ok |-> TRUE, text |-> nd.text, e |-> ""]

(* ------------------------------ logging ------------------------------- *)
\* a tracing::warn! record: the message and the file it names
Warn(m, f) == [msg |-> m, file |-> f]

\* mutant: a text that does not parse yields a default service instead of None
read_single_cfg_lenient(name, nd) ==
    LET r == read_to_string(nd)
        p == toml_from_str(r.text)
    IN  IF ~r.ok
          THEN [some |-> FALSE, service |-> NoService,
                logs |-> << Warn("Error reading", name) >>]
        ELSE [some |-> TRUE, service |-> p.service,
              logs |-> IF p.ok THEN << >> ELSE << Warn("Failed to serialize", name) >>]

\* read_single_cfg: Some(service) when the entry reads and parses, else None
\* with one warning naming the entry (the debug record of a bad text is not
\* a warning and is not kept).
read_single_cfg(name, nd) ==
    LET r == read_to_string(nd)
        p == toml_from_str(r.text)
    IN  IF ~r.ok
          THEN [some |-> FALSE, service |-> NoService,
                logs |-> << Warn("Error reading", name) >>]
        ELSE IF ~p.ok
          THEN [some |-> FALSE, service |-> NoService,
                logs |-> << Warn("Failed to serialize", name) >>]
        ELSE [some |-> TRUE, service |-> p.service, logs |-> << >>]

(* ------------------------------ the HTML ------------------------------ *)
\* A page is a sequence of tokens; a token is literal text (its pieces), a
\* template placeholder, or a rendered element.
Lit(parts)  == [t |-> "lit",  parts |-> parts]
Hole(h)     == [t |-> "hole", parts |-> << h >>]

RECURSIVE Replace(_, _, _)
\* str::replace on a template: every occurrence of the pattern `pat` becomes
\* the token sequence `by`.
Replace(tpl, pat, by) ==
    IF tpl = << >> THEN << >>
    ELSE IF Head(tpl) = Hole(pat) THEN by \o Replace(Tail(tpl), pat, by)
    ELSE << Head(tpl) >> \o Replace(Tail(tpl), pat, by)

\* index.template.html: one substitution point for the list.
INDEX_HTML_TEMPLATE ==
    << Lit(<< "<ul>" >>), Hole("{{services-list}}"), Lit(<< "</ul>" >>) >>
\* error.template.html: the context and the cause.  The pattern err()
\* replaces for the context is "{{context}", one brace short of the
\* placeholder, so the placeholder's last brace stays in the page.
ERROR_HTML_TEMPLATE ==
    << Lit(<< "<h1>" >>), Hole("{{context}"), Lit(<< "}" >>), Lit(<< "</h1>" >>),
       Hole("{{e}}") >>

Service_as_html(s) == [t |-> "article", parts |-> << s.url, s.name, s.desc >>]
Services_as_html(ss) ==
    [i \in 1..Len(ss) |-> [t |-> "li", parts |-> Service_as_html(ss[i]).parts]]

NoResp == [status |-> 0, body |-> << >>]
\* mutant: the cause is never put into the page
err_context_only(e, context) ==
    [status |-> 500,
     body   |-> Replace(ERROR_HTML_TEMPLATE, "{{context}", << Lit(context) >>)]
\* err(e, context): the 500 page
err(e, context) ==
    [status |-> 500,
     body   |-> Replace(Replace(ERROR_HTML_TEMPLATE, "{{context}", << Lit(context) >>),
                        "{{e}}", << Lit(e) >>)]
\* the Ok arm of index(): the 200 page
index_ok(ss) ==
    [status |-> 200,
     body   |-> Replace(INDEX_HTML_TEMPLATE, "{{services-list}}", Services_as_html(ss))]

\* the rendered entries of a page
Items(body) == SelectSeq(body, LAMBDA tok : tok.t = "li")

(* ------------------------------ the state ----------------------------- *)
VARIABLES
    envVar,         \* HOME_SERVICE_CFG_DIR in the process environment ("" = unset)
    CFG_PATH,       \* the OnceLock: "" while unset
    mainPc,         \* "start" | "serving"
    parentExists,   \* the parent of the configuration directory exists
    dirExists,      \* the configuration directory exists
    dirReadable,    \* ... and may be opened for enumeration
    dirEntries,     \* its entries, in enumeration order
    node,           \* name -> what the entry is
    fsOps,          \* filesystem operations the environment has performed
    pc,             \* per page load: where index() is
    rd,             \* per page load: the ReadDir iterator (entries left)
    services,       \* per page load: the registry being built
    log,            \* per page load: the warnings it logged
    resp,           \* per page load: the response
    errs,           \* per page load: next_entry errors met
    seen,           \* per page load: the entries processed, with the outcome
    via,            \* per page load: the branch read_cfg took
    dirty,          \* per page load: someone else changed the directory meanwhile
    conn,           \* per streaming connection: status, inotify fd, watch, queue
    trace,          \* per streaming connection: what the stream yielded, what was sent
    sresp           \* per streaming connection: the response head

fsVars   == << parentExists, dirExists, dirReadable, dirEntries, node, fsOps >>
loadVars == << pc, rd, services, log, resp, errs, seen, via >>
sseVars  == << conn, trace, sresp >>
vars == << envVar, CFG_PATH, mainPc, fsVars, loadVars, dirty, sseVars >>

EnvPaths == {"", "/srv/cfg"}
DefaultPath == "./cfg"

\* what an entry may be when the process starts: a file holding one of the
\* texts T, or a subdirectory
NodesOf(T) == {File(t, TRUE) : t \in T} \cup {SubDir}
InitNodes == NodesOf(SampleTexts)
\* the enumeration orders of a set of names
Orders(S) == {q \in UNION {[1..n -> S] : n \in {Cardinality(S)}} :
                 \A i, j \in 1..Len(q) : i # j => q[i] # q[j]}

ClosedConn == [st |-> "closed", fd |-> FALSE, wd |-> FALSE, queue |-> << >>]

\* the filesystem the process finds, its files holding texts of T
InitFsOf(T) ==
    /\ parentExists \in BOOLEAN
    /\ dirExists \in BOOLEAN
    /\ dirExists => parentExists
    /\ dirReadable \in BOOLEAN
    /\ ~dirExists => dirReadable
    /\ \E S \in SUBSET Names :
         /\ ~dirExists => S = {}
         /\ dirEntries \in Orders(S)
         /\ node \in {f \in [Names -> NodesOf(T) \cup {Absent}] :
                        \A n \in Names : (f[n] = Absent) <=> (n \notin S)}
    /\ fsOps = 0
InitFs == InitFsOf(SampleTexts)

\* the process is started with the environment variable drawn from E, in
\* front of a filesystem whose files hold texts of T
InitOf(E, T) ==
    /\ envVar \in E
    /\ CFG_PATH = ""
    /\ mainPc = "start"
    /\ InitFsOf(T)
    /\ pc = [p \in Loads |-> "idle"]
    /\ rd = [p \in Loads |-> << >>]
    /\ services = [p \in Loads |-> << >>]
    /\ log = [p \in Loads |-> << >>]
    /\ resp = [p \in Loads |-> NoResp]
    /\ errs = [p \in Loads |-> 0]
    /\ seen = [p \in Loads |-> << >>]
    /\ via = [p \in Loads |-> "none"]
    /\ dirty = [p \in Loads |-> FALSE]
    /\ conn = [c \in Conns |-> ClosedConn]
    /\ trace = [c \in Conns |-> << >>]
    /\ sresp = [c \in Conns |-> NoResp]
Init == InitOf({""}, SampleTexts)

(* ------------------------------ startup ------------------------------- *)
\* mutant: the server starts serving with the path still unset
main_serve_unset ==
    /\ mainPc = "start"
    /\ CFG_PATH = ""
    /\ CFG_PATH' = CFG_PATH
    /\ mainPc' = "serving"
    /\ UNCHANGED << envVar, fsVars, loadVars, dirty, sseVars >>
\* main(): resolve the path, set the OnceLock, serve.
main ==
    /\ mainPc = "start"
    /\ CFG_PATH = ""
    /\ CFG_PATH' = IF envVar # "" THEN envVar ELSE DefaultPath
    /\ mainPc' = "serving"
    /\ UNCHANGED << envVar, fsVars, loadVars, dirty, sseVars >>

(* ------------------------- inotify, kernel side ----------------------- *)
Ev(mask, name) == [mask |-> mask, name |-> name]
\* the kernel appends an event to an instance's queue unless it equals the
\* newest unread one
Deliver(q, ev) == IF q # << >> /\ q[Len(q)] = ev THEN q ELSE Append(q, ev)
\* sse() asks for IN_CREATE | IN_MODIFY
WatchMask == {"CREATE", "MODIFY"}
\* an event in the directory reaches every instance that watches it
Notify(ev) ==
    [c \in Conns |->
        IF conn[c].wd /\ ev.mask \in WatchMask
          THEN [conn[c] EXCEPT !.queue = Deliver(@, ev)]
          ELSE conn[c]]
\* removing the watched directory removes every watch on it; each instance
\* gets IN_IGNORED, whatever its mask
DropWatches ==
    [c \in Conns |->
        IF conn[c].wd
          THEN [conn[c] EXCEPT !.wd = FALSE, !.queue = Deliver(@, Ev("IGNORED", ""))]
          ELSE conn[c]]

(* --------------------------- the environment -------------------------- *)
\* page loads in flight see that the directory changed under them
Disturb(self) == [p \in Loads |-> IF p = self THEN dirty[p] ELSE dirty[p] \/ pc[p] # "idle"]
Without(q, n) == SelectSeq(q, LAMBDA x : x # n)
EnvStep(budget) ==
    /\ fsOps < budget
    /\ fsOps' = fsOps + 1
    /\ dirty' = Disturb(0)
    /\ UNCHANGED << envVar, CFG_PATH, mainPc, loadVars, trace, sresp >>

CreateFile(n, b) ==
    /\ dirExists /\ node[n] = Absent
    /\ node' = [node EXCEPT ![n] = File(TextEmpty, TRUE)]
    /\ \/ dirEntries' = Append(dirEntries, n)
       \/ dirEntries' = << n >> \o dirEntries
    /\ conn' = Notify(Ev("CREATE", n))
    /\ EnvStep(b)
    /\ UNCHANGED << parentExists, dirExists, dirReadable >>

MkSubdir(n, b) ==
    /\ dirExists /\ node[n] = Absent
    /\ node' = [node EXCEPT ![n] = SubDir]
    /\ dirEntries' = Append(dirEntries, n)
    /\ conn' = Notify(Ev("CREATE", n))
    /\ EnvStep(b)
    /\ UNCHANGED << parentExists, dirExists, dirReadable >>

WriteFile(n, t, b) ==
    /\ dirExists /\ node[n].kind = "file"
    /\ node' = [node EXCEPT ![n].text = t]
    /\ conn' = Notify(Ev("MODIFY", n))
    /\ EnvStep(b)
    /\ UNCHANGED << parentExists, dirExists, dirReadable, dirEntries >>

DeleteFile(n, b) ==
    /\ dirExists /\ node[n] # Absent
    /\ node' = [node EXCEPT ![n] = Absent]
    /\ dirEntries' = Without(dirEntries, n)
    /\ conn' = Notify(Ev("DELETE", n))
    /\ EnvStep(b)
    /\ UNCHANGED << parentExists, dirExists, dirReadable >>

ChmodFile(n, b) ==
    /\ dirExists /\ node[n].kind = "file"
    /\ node' = [node EXCEPT ![n].readable = ~@]
    /\ conn' = Notify(Ev("ATTRIB", n))
    /\ EnvStep(b)
    /\ UNCHANGED << parentExists, dirExists, dirReadable, dirEntries >>

ChmodDir(b) ==
    /\ dirExists
    /\ dirReadable' = ~dirReadable
    /\ EnvStep(b)
    /\ UNCHANGED << parentExists, dirExists, dirEntries, node, conn >>

RemoveDir(b) ==
    /\ dirExists /\ dirEntries = << >>
    /\ dirExists' = FALSE
    /\ dirReadable' = TRUE
    /\ conn' = DropWatches
    /\ EnvStep(b)
    /\ UNCHANGED << parentExists, dirEntries, node >>

MkDir(b) ==
    /\ ~dirExists /\ parentExists
    /\ dirExists' = TRUE
    /\ EnvStep(b)
    /\ UNCHANGED << parentExists, dirReadable, dirEntries, node, conn >>

RemoveParent(b) ==
    /\ ~dirExists /\ parentExists
    /\ parentExists' = FALSE
    /\ EnvStep(b)
    /\ UNCHANGED << dirExists, dirReadable, dirEntries, node, conn >>

MkParent(b) ==
    /\ ~parentExists
    /\ parentExists' = TRUE
    /\ EnvStep(b)
    /\ UNCHANGED << dirExists, dirReadable, dirEntries, node, conn >>

\* the environment, acting on the names N and writing the texts T, b times
Env(b, N, T) ==
    \/ \E n \in N : CreateFile(n, b) \/ MkSubdir(n, b) \/ DeleteFile(n, b) \/ ChmodFile(n, b)
    \/ \E n \in N, t \in T : WriteFile(n, t, b)
    \/ ChmodDir(b) \/ RemoveDir(b) \/ MkDir(b) \/ RemoveParent(b) \/ MkParent(b)

(* ------------------------------ page load ----------------------------- *)
Outcome(name, r) == [name |-> name, some |-> r.some, service |-> r.service]

\* index() is entered; read_cfg reads CFG_PATH and tests path.exists()
index(p) ==
    /\ mainPc = "serving"
    /\ pc[p] \in {"idle", "done"}
    /\ rd' = [rd EXCEPT ![p] = << >>]
    /\ services' = [services EXCEPT ![p] = << >>]
    /\ seen' = [seen EXCEPT ![p] = << >>]
    /\ errs' = [errs EXCEPT ![p] = 0]
    /\ dirty' = [dirty EXCEPT ![p] = FALSE]
    /\ via' = [via EXCEPT ![p] = IF CFG_PATH = "" THEN "none"
                                  ELSE IF dirExists THEN "scan" ELSE "create"]
    /\ IF CFG_PATH = ""
         THEN /\ pc' = [pc EXCEPT ![p] = "done"]
              /\ resp' = [resp EXCEPT ![p] = err(<< "CFG_PATH is unset!" >>, << "reading cfg" >>)]
              /\ log' = [log EXCEPT ![p] = << Warn("Generating error html", "") >>]
         ELSE /\ pc' = [pc EXCEPT ![p] = IF dirExists THEN "read_dir" ELSE "create_dir"]
              /\ resp' = [resp EXCEPT ![p] = NoResp]
              /\ log' = [log EXCEPT ![p] = << >>]
    /\ UNCHANGED << envVar, CFG_PATH, mainPc, fsVars, sseVars >>

\* mutant: a missing directory is an error; nothing is created
read_cfg_create_dir_strict(p) ==
    /\ pc[p] = "create_dir"
    /\ pc' = [pc EXCEPT ![p] = "done"]
    /\ resp' = [resp EXCEPT ![p] =
         err(<< "Error creating cfg dir: ", "No such file or directory" >>, << "reading cfg" >>)]
    /\ log' = [log EXCEPT ![p] = Append(@, Warn("Generating error html", ""))]
    /\ UNCHANGED << envVar, CFG_PATH, mainPc, fsVars, rd, services, errs, seen, via, dirty,
                    sseVars >>

\* read_cfg, the branch for a missing directory: tokio::fs::create_dir, then
\* Ok(services) without a scan, or the error through err()
read_cfg_create_dir(p) ==
    /\ pc[p] = "create_dir"
    /\ pc' = [pc EXCEPT ![p] = "done"]
    /\ IF ~dirExists /\ parentExists
         THEN /\ dirExists' = TRUE
              /\ dirty' = Disturb(p)
              /\ resp' = [resp EXCEPT ![p] = index_ok(services[p])]
              /\ log' = log
         ELSE /\ dirExists' = dirExists
              /\ dirty' = dirty
              /\ resp' = [resp EXCEPT ![p] =
                   err(<< "Error creating cfg dir: ",
                          IF dirExists THEN "File exists" ELSE "No such file or directory" >>,
                       << "reading cfg" >>)]
              /\ log' = [log EXCEPT ![p] = Append(@, Warn("Generating error html", ""))]
    /\ UNCHANGED << envVar, CFG_PATH, mainPc, parentExists, dirReadable, dirEntries, node,
                    fsOps, rd, services, errs, seen, via, sseVars >>

\* mutant: a directory that cannot be opened fails the page load
read_all_cfg_files_open_strict(p) ==
    /\ pc[p] = "read_dir"
    /\ IF dirExists /\ dirReadable
         THEN /\ rd' = [rd EXCEPT ![p] = dirEntries]
              /\ pc' = [pc EXCEPT ![p] = "next_entry"]
              /\ UNCHANGED << log, resp >>
         ELSE /\ log' = [log EXCEPT ![p] = Append(@, Warn("read dir failed", ""))]
              /\ resp' = [resp EXCEPT ![p] = err(<< "read dir failed" >>, << "reading cfg" >>)]
              /\ pc' = [pc EXCEPT ![p] = "done"]
              /\ rd' = rd
    /\ UNCHANGED << envVar, CFG_PATH, mainPc, fsVars, services, errs, seen, via, dirty,
                    sseVars >>

\* read_all_cfg_files: tokio::fs::read_dir; a failure is logged and the
\* registry stays as it is
read_all_cfg_files_open(p) ==
    /\ pc[p] = "read_dir"
    /\ IF dirExists /\ dirReadable
         THEN /\ rd' = [rd EXCEPT ![p] = dirEntries]
              /\ pc' = [pc EXCEPT ![p] = "next_entry"]
              /\ UNCHANGED << log, resp >>
         ELSE /\ log' = [log EXCEPT ![p] = Append(@, Warn("read dir failed", ""))]
              /\ resp' = [resp EXCEPT ![p] = index_ok(services[p])]
              /\ pc' = [pc EXCEPT ![p] = "done"]
              /\ rd' = rd
    /\ UNCHANGED << envVar, CFG_PATH, mainPc, fsVars, services, errs, seen, via, dirty,
                    sseVars >>

\* mutant: the end of the directory does not leave the loop
read_all_cfg_files_loop_no_break(p) ==
    /\ pc[p] = "next_entry"
    /\ \/ /\ rd[p] # << >>
          /\ LET name == Head(rd[p])
                 r == read_single_cfg(name, node[name])
             IN  /\ services' = [services EXCEPT ![p] = IF r.some THEN Append(@, r.service) ELSE @]
                 /\ log' = [log EXCEPT ![p] = @ \o r.logs]
                 /\ seen' = [seen EXCEPT ![p] = Append(@, Outcome(name, r))]
          /\ rd' = [rd EXCEPT ![p] = Tail(@)]
          /\ UNCHANGED << pc, resp, errs >>
       \/ /\ errs[p] < MaxDirErrs
          /\ errs' = [errs EXCEPT ![p] = @ + 1]
          /\ UNCHANGED << rd, services, log, pc, resp, seen >>
    /\ UNCHANGED << envVar, CFG_PATH, mainPc, fsVars, via, dirty, sseVars >>
\* mutant: a parsed service is put in front of the registry
read_all_cfg_files_loop_prepend(p) ==
    /\ pc[p] = "next_entry"
    /\ \/ /\ rd[p] # << >>
          /\ LET name == Head(rd[p])
                 r == read_single_cfg(name, node[name])
             IN  /\ services' = [services EXCEPT ![p] = IF r.some THEN << r.service >> \o @ ELSE @]
                 /\ log' = [log EXCEPT ![p] = @ \o r.logs]
                 /\ seen' = [seen EXCEPT ![p] = Append(@, Outcome(name, r))]
          /\ rd' = [rd EXCEPT ![p] = Tail(@)]
          /\ UNCHANGED << pc, resp, errs >>
       \/ /\ rd[p] = << >>
          /\ resp' = [resp EXCEPT ![p] = index_ok(services[p])]
          /\ pc' = [pc EXCEPT ![p] = "done"]
          /\ UNCHANGED << rd, services, log, errs, seen >>
       \/ /\ errs[p] < MaxDirErrs
          /\ errs' = [errs EXCEPT ![p] = @ + 1]
          /\ UNCHANGED << rd, services, log, pc, resp, seen >>
    /\ UNCHANGED << envVar, CFG_PATH, mainPc, fsVars, via, dirty, sseVars >>
\* read_all_cfg_files: one turn of the loop.  r.next_entry() gives an entry,
\* which read_single_cfg turns into a pushed service or nothing; or the end of
\* the directory, which ends the scan; or an error, which is logged (at error
\* level: counted, not a warning) before the loop goes round again.
read_all_cfg_files_loop(p) ==
    /\ pc[p] = "next_entry"
    /\ \/ /\ rd[p] # << >>
          /\ LET name == Head(rd[p])
                 r == read_single_cfg(name, node[name])
             IN  /\ services' = [services EXCEPT ![p] = IF r.some THEN Append(@, r.service) ELSE @]
                 /\ log' = [log EXCEPT ![p] = @ \o r.logs]
                 /\ seen' = [seen EXCEPT ![p] = Append(@, Outcome(name, r))]
          /\ rd' = [rd EXCEPT ![p] = Tail(@)]
          /\ UNCHANGED << pc, resp, errs >>
       \/ /\ rd[p] = << >>
          /\ resp' = [resp EXCEPT ![p] = index_ok(services[p])]
          /\ pc' = [pc EXCEPT ![p] = "done"]
          /\ UNCHANGED << rd, services, log, errs, seen >>
       \/ /\ errs[p] < MaxDirErrs
          /\ errs' = [errs EXCEPT ![p] = @ + 1]
          /\ UNCHANGED << rd, services, log, pc, resp, seen >>
    /\ UNCHANGED << envVar, CFG_PATH, mainPc, fsVars, via, dirty, sseVars >>

Load(P) ==
    \E p \in P :
        \/ index(p)
        \/ read_cfg_create_dir(p)
        \/ read_all_cfg_files_open(p)
        \/ read_all_cfg_files_loop(p)

(* ------------------------- streaming connection ----------------------- *)
Item(src, frame) == [src |-> src, frame |-> frame]
\* the closure of stream.map in sse(): whatever the stream yields, an event
\* or an error, becomes Ok(Event::default().data("update"))
sse_map(item) == "update"

SseStart(c) ==
    /\ mainPc = "serving"
    /\ conn[c].st # "open"
    /\ trace' = [trace EXCEPT ![c] = << >>]
    /\ UNCHANGED << envVar, CFG_PATH, mainPc, fsVars, loadVars, dirty >>

\* the path can be watched: it is there and the process may read it
Watchable == dirExists /\ dirReadable

\* sse(): Inotify::init() fails
sse_init_fail(c) ==
    /\ SseStart(c)
    /\ conn' = [conn EXCEPT ![c] = [ClosedConn EXCEPT !.st = "failed"]]
    /\ sresp' = [sresp EXCEPT ![c] =
         err(<< "Too many open files" >>, << "setting up inotify" >>)]

\* mutant: a watch that cannot be added brings every connection down
sse_add_fail_fatal(c) ==
    /\ mainPc = "serving"
    /\ conn[c].st # "open"
    /\ CFG_PATH # ""
    /\ conn' = [d \in Conns |-> IF d = c THEN [ClosedConn EXCEPT !.st = "failed"] ELSE ClosedConn]
    /\ trace' = [d \in Conns |-> << >>]
    /\ sresp' = [sresp EXCEPT ![c] =
         err(<< "No space left on device" >>, << "setting up inotify for cfg path" >>)]
    /\ UNCHANGED << envVar, CFG_PATH, mainPc, fsVars, loadVars, dirty >>

\* sse(): watches().add(CFG_PATH, CREATE | MODIFY) fails, for the path or for
\* the watch limit; the `?` drops the watcher.  CFG_PATH.get().unwrap()
\* panics on an unset path: the request dies without a response.
sse_add_fail(c) ==
    /\ SseStart(c)
    /\ IF CFG_PATH = ""
         THEN /\ conn' = [conn EXCEPT ![c] = [ClosedConn EXCEPT !.st = "panicked"]]
              /\ sresp' = [sresp EXCEPT ![c] = NoResp]
         ELSE /\ conn' = [conn EXCEPT ![c] = [ClosedConn EXCEPT !.st = "failed"]]
              /\ \E cause \in IF ~dirExists THEN {"No such file or directory"}
                              ELSE IF ~dirReadable THEN {"Permission denied"}
                              ELSE {"No space left on device"} :
                   sresp' = [sresp EXCEPT ![c] =
                       err(<< cause >>, << "setting up inotify for cfg path" >>)]

\* mutant: the watcher outlives the failed conversion, watch and all
sse_stream_fail_leak(c) ==
    /\ SseStart(c)
    /\ CFG_PATH # "" /\ Watchable
    /\ conn' = [conn EXCEPT ![c] = [st |-> "failed", fd |-> TRUE, wd |-> TRUE, queue |-> << >>]]
    /\ sresp' = [sresp EXCEPT ![c] =
         err(<< "Cannot register the file descriptor" >>, << "watcher into event stream" >>)]

\* sse(): into_event_stream(buf) fails after the watch was added; the watcher
\* was moved into the call and is dropped with it
sse_stream_fail(c) ==
    /\ SseStart(c)
    /\ CFG_PATH # "" /\ Watchable
    /\ conn' = [conn EXCEPT ![c] = [ClosedConn EXCEPT !.st = "failed"]]
    /\ sresp' = [sresp EXCEPT ![c] =
         err(<< "Cannot register the file descriptor" >>, << "watcher into event stream" >>)]

\* mutant: the handler creates the configuration directory when it is missing
sse_open_mkdir(c) ==
    /\ mainPc = "serving"
    /\ conn[c].st # "open"
    /\ CFG_PATH # "" /\ parentExists /\ dirReadable
    /\ dirExists' = TRUE
    /\ trace' = [trace EXCEPT ![c] = << >>]
    /\ conn' = [conn EXCEPT ![c] = [st |-> "open", fd |-> TRUE, wd |-> TRUE, queue |-> << >>]]
    /\ sresp' = [sresp EXCEPT ![c] = [status |-> 200, body |-> << >>]]
    /\ UNCHANGED << envVar, CFG_PATH, mainPc, parentExists, dirReadable, dirEntries, node,
                    fsOps, loadVars, dirty >>
\* sse(): the handshake completes; the response owns the event stream
sse_open(c) ==
    /\ SseStart(c)
    /\ CFG_PATH # "" /\ Watchable
    /\ conn' = [conn EXCEPT ![c] = [st |-> "open", fd |-> TRUE, wd |-> TRUE, queue |-> << >>]]
    /\ sresp' = [sresp EXCEPT ![c] = [status |-> 200, body |-> << >>]]

Streaming(c) ==
    /\ conn[c].st = "open"
    /\ UNCHANGED << envVar, CFG_PATH, mainPc, fsVars, loadVars, dirty, sresp >>

\* mutant: everything queued is read at once and sent as a single frame
sse_event_drain(c) ==
    /\ Streaming(c)
    /\ conn[c].queue # << >>
    /\ LET ev == Head(conn[c].queue)
       IN  trace' = [trace EXCEPT ![c] = Append(@, Item(ev.mask, sse_map(ev)))]
    /\ conn' = [conn EXCEPT ![c].queue = << >>]

\* the stream yields the oldest queued event; the closure makes the frame
sse_event(c) ==
    /\ Streaming(c)
    /\ conn[c].queue # << >>
    /\ LET ev == Head(conn[c].queue)
       IN  trace' = [trace EXCEPT ![c] = Append(@, Item(ev.mask, sse_map(ev)))]
    /\ conn' = [conn EXCEPT ![c].queue = Tail(@)]

\* the stream yields Err(e): reading the inotify descriptor failed
sse_error(c) ==
    /\ Streaming(c)
    /\ Len(trace[c]) < MaxFrames
    /\ trace' = [trace EXCEPT ![c] = Append(@, Item("error", sse_map("error")))]
    /\ conn' = conn

\* KeepAlive: the idle timer fires while the stream has nothing to yield
sse_keep_alive(c) ==
    /\ Streaming(c)
    /\ conn[c].queue = << >>
    /\ Len(trace[c]) < MaxFrames
    /\ trace' = [trace EXCEPT ![c] = Append(@, Item("timer", "keep-alive"))]
    /\ conn' = conn

\* mutant: the inotify descriptor is not closed with the connection
sse_close_leak(c) ==
    /\ Streaming(c)
    /\ conn' = [conn EXCEPT ![c].st = "closed"]
    /\ trace' = [trace EXCEPT ![c] = << >>]

\* the client goes away: the response body, and with it the event stream and
\* its inotify descriptor, is dropped
sse_close(c) ==
    /\ Streaming(c)
    /\ conn' = [conn EXCEPT ![c] = ClosedConn]
    /\ trace' = [trace EXCEPT ![c] = << >>]

Sse(C) ==
    \E c \in C :
        \/ sse_init_fail(c)
        \/ sse_add_fail(c)
        \/ sse_stream_fail(c)
        \/ sse_open(c)
        \/ sse_event(c)
        \/ sse_error(c)
        \/ sse_keep_alive(c)
        \/ sse_close(c)

(* --------------------------- specifications --------------------------- *)
\* a small installation: no configuration directory yet, an empty one, or
\* one holding a single valid descriptor
InitSmall ==
    /\ Init
    /\ node["f2"] = Absent
    /\ node["f1"] \in {Absent, File(TextValid, TRUE)}

\* page loads over every directory content, the environment interfering
NextLoad == main \/ Env(MaxRaceOps, Names, SampleTexts) \/ Load(Loads)
SpecLoad == Init /\ [][NextLoad]_vars

\* streaming connections, the environment changing the directory
NextSse == main \/ Env(MaxFsOps, {"f1"}, {TextValid}) \/ Sse(Conns)
SpecSse == InitSmall /\ [][NextSse]_vars
\* the runtime polls a stream whose descriptor is readable
NextSseOne == main \/ Env(MaxFsOps, {"f1"}, {TextValid}) \/ Sse({1})
FairSpecSse == InitSmall /\ [][NextSseOne]_vars /\ WF_vars(sse_event(1))

\* the server as a whole: a page load beside the streaming connections
Next == main \/ Env(MaxRaceOps, {"f1"}, {TextValid}) \/ Load({1}) \/ Sse(Conns)
Spec == InitSmall /\ [][Next]_vars

\* the server from its start, under either setting of the environment
\* variable: a page load and a streaming connection
InitStart == InitOf(EnvPaths, {TextValid}) /\ node["f2"] = Absent
NextStart == main \/ Env(MaxRaceOps, {"f1"}, {TextValid}) \/ Load({1}) \/ Sse({1})
SpecStart == InitStart /\ [][NextStart]_vars
\* one page load over every directory content, the environment interfering;
\* the runtime keeps running a request that can take a step
NextScan == main \/ Env(MaxRaceOps, Names, SampleTexts) \/ Load({1})
FairSpecScan ==
    /\ Init /\ [][NextScan]_vars
    /\ WF_vars(read_cfg_create_dir(1))
    /\ WF_vars(read_all_cfg_files_open(1))
    /\ WF_vars(read_all_cfg_files_loop(1))
\* the parser over every descriptor text of ParseTexts: a page load of a
\* directory whose file holds one of them
InitParse == InitOf({""}, ParseTexts) /\ node["f2"] = Absent
NextParse == main \/ Load({1})
SpecParse == InitParse /\ [][NextParse]_vars
\* a page load over directories whose files describe different services
InitOrder == InitOf({""}, OrderTexts)
NextOrder == main \/ Env(MaxRaceOps, Names, OrderTexts) \/ Load({1})
SpecOrder == InitOrder /\ [][NextOrder]_vars
(* ------------------------------- claims ------------------------------- *)
\* a page load has answered and nobody else has touched the directory since
\* it began
Quiet(p) == pc[p] = "done" /\ ~dirty[p]
\* the warnings of page load p that name file n
WarnsFor(p, n) == Len(SelectSeq(log[p], LAMBDA w : w.file = n))
\* the record the valid sample descriptor describes
ServiceA == [name |-> "A", url |-> "http://x", desc |-> "d"]
\* entry n is a readable regular file holding the valid sample descriptor
GoodFile(n) == node[n] = File(TextValid, TRUE)
GoodEntries == SelectSeq(dirEntries, GoodFile)
\* the services pushed according to the outcomes of the entries processed
Pushed(p) ==
    LET oks == SelectSeq(seen[p], LAMBDA o : o.some)
    IN  [i \in 1..Len(oks) |-> oks[i].service]
\* the list items index renders for page load p: services.as_html()
Rendered(p) == Items(Services_as_html(services[p]))
\* page load p scanned an enumerable directory that stayed as it was
QuietScan(p) == Quiet(p) /\ via[p] = "scan" /\ dirExists /\ dirReadable

\* C1: the registry of a page load holds exactly the services of the entries
\* that read and parsed, none for an entry that failed; over a directory that
\* stays as it is, it holds one entry per valid file, in order (N-1 entries
\* when one of N files is invalid), and exactly one warning names each
\* invalid entry and none a valid one.
C1_RegistryExcludesFailures ==
    \A p \in Loads :
        /\ services[p] = Pushed(p)
        /\ QuietScan(p) =>
             /\ resp[p].status = 200
             /\ services[p] = [i \in 1..Len(GoodEntries) |-> ServiceA]
             /\ Len(Rendered(p)) = Len(GoodEntries)
             /\ \A n \in Names :
                  WarnsFor(p, n) = IF node[n] # Absent /\ ~GoodFile(n) THEN 1 ELSE 0
\* a finished scan of two files, one valid and one invalid: one entry
C1_Witness ==
    \E p \in Loads, n, m \in Names :
        /\ QuietScan(p)
        /\ Len(dirEntries) = 2
        /\ GoodFile(n)
        /\ node[m] \in {File(TextMalformed, TRUE), File(TextDescription, TRUE)}
        /\ Len(services[p]) = 1
        /\ WarnsFor(p, m) = 1

\* a stream item that is a change notification: an event read from the watcher
Notifications == {"CREATE", "MODIFY", "IGNORED"}
\* C2: on every streaming connection the "update" frames are exactly the
\* frames made for change notifications: every notification gives one
\* "update" frame and no "update" frame is sent for anything else.
C2_UpdateIffNotification ==
    \A c \in Conns : \A i \in 1..Len(trace[c]) :
        (trace[c][i].frame = "update") <=> (trace[c][i].src \in Notifications)

\* the events connection c's stream has yielded, and the frames by payload
Yielded(c) == SelectSeq(trace[c], LAMBDA it : it.src \in Notifications)
Updates(c) == SelectSeq(trace[c], LAMBDA it : it.frame = "update")
Errors(c)  == SelectSeq(trace[c], LAMBDA it : it.src = "error")
\* everything connection c's watch has been told since it opened is one
\* file creation, the create and the write of the content, all of it sent
OneFileCreated(c) ==
    /\ conn[c].st = "open"
    /\ conn[c].queue = << >>
    /\ Errors(c) = << >>
    /\ [i \in 1..Len(Yielded(c)) |-> Yielded(c)[i].src] = << "CREATE", "MODIFY" >>
OpenConns == {c \in Conns : conn[c].st = "open"}
Instances == {c \in Conns : conn[c].fd}
Watches   == {c \in Conns : conn[c].wd}
\* connection c's watch was removed with the directory: it was told IN_IGNORED
ToldIgnored(c) ==
    \/ \E i \in 1..Len(conn[c].queue) : conn[c].queue[i].mask = "IGNORED"
    \/ \E i \in 1..Len(trace[c]) : trace[c][i].src = "IGNORED"
\* C4 as stated: there are as many live watches as open streaming connections.
C4_WatchesEqualConnections == Cardinality(Watches) = Cardinality(OpenConns)
\* C4 as amended: the connections that stream are exactly the ones that hold
\* an inotify instance, each its own; a watch lives only in the instance of an
\* open connection, so none is left once every connection is closed; and an
\* open connection is without its watch only after the watched directory was
\* removed under it.
C4_InstancePerConnection ==
    /\ Instances = OpenConns
    /\ Watches \subseteq OpenConns
    /\ \A c \in OpenConns : conn[c].wd \/ ToldIgnored(c)
    /\ \A c \in Conns \ OpenConns : conn[c].queue = << >>
C4_Witness ==
    \E c, d \in Conns :
        /\ conn[c].st = "open" /\ conn[c].wd
        /\ conn[d].st = "closed" /\ sresp[d].status = 200 /\ ~conn[d].wd

\* the page says s somewhere in its literal text
Mentions(body, s) ==
    \E i \in 1..Len(body) : body[i].t = "lit" /\ \E j \in 1..Len(body[i].parts) : body[i].parts[j] = s

\* C5: a page load against an empty directory, or against a missing one that
\* can be created, answers 200 with no entry; the missing directory exists,
\* empty, afterwards.
C5_EmptyOrCreatedIs200 ==
    \A p \in Loads :
        /\ (Quiet(p) /\ via[p] = "create" /\ parentExists) =>
              /\ resp[p].status = 200
              /\ services[p] = << >> /\ Rendered(p) = << >>
              /\ dirExists /\ dirEntries = << >>
        /\ (Quiet(p) /\ via[p] = "scan" /\ dirExists /\ dirEntries = << >>) =>
              /\ resp[p].status = 200
              /\ services[p] = << >> /\ Rendered(p) = << >>
C5_Witness ==
    \E p \in Loads : Quiet(p) /\ via[p] = "create" /\ parentExists /\ dirExists

\* C6: a page load against a missing directory whose parent is missing answers
\* 500; the page names the context and the cause and renders no registry.
C6_UncreatableIs500 ==
    \A p \in Loads :
        (Quiet(p) /\ via[p] = "create" /\ ~parentExists) =>
            /\ resp[p].status = 500
            /\ Mentions(resp[p].body, "reading cfg")
            /\ Mentions(resp[p].body, "No such file or directory")
            /\ Items(resp[p].body) = << >>
            /\ ~Mentions(resp[p].body, "<ul>")
            /\ ~dirExists
C6_Witness ==
    \E p \in Loads : Quiet(p) /\ via[p] = "create" /\ ~parentExists

\* C7: a streaming connection whose watcher setup failed was answered 500,
\* streams nothing (no frame, update or keep-alive) and holds neither an
\* inotify instance nor a watch.
C7_SetupFailureReleases ==
    \A c \in Conns :
        conn[c].st = "failed" =>
            /\ sresp[c].status = 500
            /\ trace[c] = << >>
            /\ ~conn[c].fd /\ ~conn[c].wd /\ conn[c].queue = << >>
C7_Witness ==
    \E c \in Conns :
        conn[c].st = "failed" /\ sresp[c].status = 500 /\ dirExists /\ dirReadable

\* C8: a page load against a directory that is there but cannot be opened
\* answers 200 with no entry and logs one warning about the directory.
C8_UnreadableDirIsEmpty ==
    \A p \in Loads :
        (Quiet(p) /\ dirExists /\ ~dirReadable) =>
            /\ resp[p].status = 200
            /\ services[p] = << >> /\ Rendered(p) = << >>
            /\ log[p] = << Warn("read dir failed", "") >>
C8_Witness ==
    \E p \in Loads : Quiet(p) /\ dirExists /\ ~dirReadable /\ dirEntries # << >>

\* page load p scanned a directory whose one entry is a readable file with
\* this text
Loaded(text, p) ==
    QuietScan(p) /\ \E n \in Names : dirEntries = << n >> /\ node[n] = File(text, TRUE)
PageFails(p) == pc[p] # "done" /\ pc'[p] = "done" /\ resp'[p].status = 500
SseFails(c)  == conn'[c].st = "failed" /\ (conn[c].st # "failed" \/ sresp'[c] # sresp[c])
WatcherErrs(c) ==
    /\ conn[c].st = "open"
    /\ Len(trace'[c]) = Len(trace[c]) + 1
    /\ trace'[c][Len(trace'[c])].src = "error"
\* the page loads other than P and the connections other than C are as before
OthersKeep(P, C) ==
    /\ mainPc' = mainPc
    /\ \A q \in Loads \ P :
          /\ pc'[q] = pc[q] /\ rd'[q] = rd[q] /\ services'[q] = services[q]
          /\ resp'[q] = resp[q] /\ log'[q] = log[q]
    /\ \A d \in Conns \ C :
          conn'[d] = conn[d] /\ trace'[d] = trace[d] /\ sresp'[d] = sresp[d]
SomethingFailed ==
    \/ \E p \in Loads : resp[p].status = 500
    \/ \E c \in Conns : conn[c].st = "failed" \/ Errors(c) # << >>
\* C10: a failing page load, a failing connection setup or a watcher error
\* changes nothing of any other request or connection; whatever has failed,
\* the server still serves, a new page load can begin, and every open
\* connection with an event queued can send it.
C10_FailuresIsolated ==
    /\ [][/\ \A p \in Loads : PageFails(p) => OthersKeep({p}, {})
          /\ \A c \in Conns : (SseFails(c) \/ WatcherErrs(c)) => OthersKeep({}, {c})]_vars
    /\ [](SomethingFailed =>
            /\ mainPc = "serving"
            /\ \A p \in Loads : pc[p] \in {"idle", "done"} => ENABLED index(p)
            /\ \A c \in Conns : conn[c].st # "open" => ENABLED sse_init_fail(c)
            /\ \A c \in Conns :
                  (conn[c].st = "open" /\ conn[c].queue # << >>) => ENABLED sse_event(c))
C10_Witness ==
    \E c, d \in Conns :
        /\ resp[1].status = 500
        /\ conn[c].st = "failed"
        /\ conn[d].st = "open"


\* the path main() resolves: the environment override, else the default
Resolved == IF envVar # "" THEN envVar ELSE DefaultPath
\* C11: the configuration path is written once, by main() before it serves,
\* with the resolved value, and never changes again; whenever a page load or
\* a streaming connection has read it, it was set to that value, so no page
\* load took the 'path unset' branch and no connection panicked on it.
C11_PathSetOnceBeforeServing ==
    /\ [][/\ envVar' = envVar
          /\ CFG_PATH' # CFG_PATH =>
               mainPc = "start" /\ CFG_PATH = "" /\ CFG_PATH' = Resolved]_vars
    /\ [](mainPc = "serving" => CFG_PATH # "" /\ CFG_PATH = Resolved)
    /\ [](\A p \in Loads : pc[p] # "idle" => CFG_PATH = Resolved /\ via[p] # "none")
    /\ [](\A c \in Conns :
            /\ conn[c].st # "panicked"
            /\ conn[c].st # "closed" => CFG_PATH = Resolved)
\* the override was given; a page load and a connection were served under it
C11_Witness ==
    /\ envVar = "/srv/cfg" /\ CFG_PATH = "/srv/cfg"
    /\ pc[1] = "done" /\ via[1] = "scan"
    /\ conn[1].st = "open"

\* C12: when the watcher of a streaming connection yields an error, no
\* "update" frame is sent for it, the stream ends and the connection's
\* inotify instance and watch are released.
C12_ErrorEndsStream ==
    \A c \in Conns : \A i \in 1..Len(trace[c]) :
        trace[c][i].src = "error" =>
            /\ trace[c][i].frame # "update"
            /\ conn[c].st # "open"
            /\ ~conn[c].fd /\ ~conn[c].wd

\* a request has been handled: a page load or a streaming connection has
\* been answered
Handled == (\E p \in Loads : pc[p] = "done") \/ (\E c \in Conns : conn[c].st # "closed")
\* C13: with nobody but the server acting on a creatable configuration
\* directory, the directory exists in every state in which a request has
\* been handled, whichever request came first.
C13_DirectoryExistsWhenHandled ==
    (fsOps = 0 /\ parentExists /\ Handled) => dirExists

\* C14: with nobody but the server acting, every page load that found the
\* creatable directory missing answers 200 with an empty registry, however
\* the page loads interleave.
C14_ConcurrentCreatesAll200 ==
    \A p \in Loads :
        (fsOps = 0 /\ parentExists /\ pc[p] = "done" /\ via[p] = "create") =>
            resp[p].status = 200 /\ services[p] = << >>

C16_UpdateOnlyOnCreateOrModify ==
    \A c \in Conns : \A i \in 1..Len(trace[c]) :
        (trace[c][i].frame = "update" /\ trace[c][i].src # "error") =>
            trace[c][i].src \in WatchMask

\* C18: a scan over a directory that stayed as it was logs no warning for
\* an entry that is a directory; it skips the entry silently.
C18_SubdirSkippedSilently ==
    \A p \in Loads :
        QuietScan(p) => \A n \in Names : node[n] = SubDir => WarnsFor(p, n) = 0

\* the text is structurally valid and holds the three required fields, each
\* a non-empty string
WellFormed(text) ==
    /\ \A i \in 1..Len(text) : text[i].ty # "bad"
    /\ \A f \in 1..3 :
          /\ LinesOf(text, RequiredFields[f]) # {}
          /\ \A i \in LinesOf(text, RequiredFields[f]) : text[i].ty = "str" /\ text[i].val # ""
\* C17: a descriptor yields a record in the registry if and only if it is
\* structurally valid and holds the three required fields, each a non-empty
\* string; unknown extra fields make no difference.
C17_RecordIffNonEmptyFields ==
    \A p \in Loads : \A t \in ParseTexts :
        Loaded(t, p) => (services[p] # << >> <=> WellFormed(t))

\* the entries of the directory that read and parse, in enumeration order
ParsedEntries == SelectSeq(dirEntries, LAMBDA n : read_single_cfg(n, node[n]).some)
ServiceB == [name |-> "B", url |-> "http://y", desc |-> "e"]
\* C19: after a scan of a directory that stayed as it was, the registry is
\* the services of the entries that parsed, in enumeration order, one per
\* entry even when two files describe the same service, and the rendered
\* list has one item per registry entry in the same order.
C19_EnumerationOrderKept ==
    \A p \in Loads :
        QuietScan(p) =>
            /\ services[p] = [i \in 1..Len(ParsedEntries) |->
                                 toml_from_str(node[ParsedEntries[i]].text).service]
            /\ Rendered(p) = [i \in 1..Len(ParsedEntries) |->
                                 [t |-> "li",
                                  parts |-> << services[p][i].url, services[p][i].name,
                                               services[p][i].desc >>]]
\* the directory enumerates f2 (service B) before f1 (service A); both loaded
C19_Witness ==
    \E p \in Loads :
        /\ QuietScan(p)
        /\ dirEntries = << "f2", "f1" >>
        /\ node["f2"] = File(TextValidB, TRUE) /\ node["f1"] = File(TextValid, TRUE)
        /\ services[p] = << ServiceB, ServiceA >>

\* a step of the environment: it counts its operations
EnvActs == fsOps' # fsOps
\* C20: a step of the server (a page load or a streaming connection, not the
\* environment) leaves the filesystem as it is, files, entries and
\* permissions, except that the page load that found the directory missing
\* creates it, empty.
C20_OnlyDirectoryCreation ==
    [][~EnvActs =>
          /\ parentExists' = parentExists /\ dirReadable' = dirReadable
          /\ dirEntries' = dirEntries /\ node' = node
          /\ dirExists' # dirExists =>
                /\ ~dirExists /\ dirExists' /\ dirEntries' = << >>
                /\ \E p \in Loads :
                      pc[p] = "create_dir" /\ pc'[p] = "done" /\ resp'[p].status = 200]_vars
\* a page load has created the directory, a streaming connection then opened
\* on it, and the environment has not acted
C20_Witness ==
    /\ fsOps = 0 /\ dirExists
    /\ pc[1] = "done" /\ via[1] = "create" /\ resp[1].status = 200
    /\ conn[1].st = "open"
====
